---- MODULE Spec2Model ----
(***************************************************************************)
(* GBILI (Graph Based on Informativeness of Labeled Instances), gbili.py.  *)
(* The orchestrator main() fans the object range out to worker processes   *)
(* twice (labeled_nearest, then gbili), receives one result per worker     *)
(* over a Pipe in dispatch order, and writes the merged edge list.         *)
(*                                                                         *)
(* Feature vectors are one-dimensional integer points, so the Euclidean    *)
(* distance is the absolute difference.  A weight 1 / (1 + d1) is kept as  *)
(* the pair <<1, 1 + d1>>.  Python sequences are 1-based here: the pair    *)
(* dic_knn[obj] = (dists, indexs) is <<dists, indexs>>.                    *)
(***************************************************************************)
EXTENDS Integers, Sequences, FiniteSets, TLC

\* ---- bounds of the explored inputs ----
MaxObj == 3          \* obj_count ranges over 1..MaxObj
MaxCoord == 2        \* attribute values range over 0..MaxCoord
MaxLineObj == 6      \* obj_count ranges over 1..MaxLineObj for the points on a line
MaxK1 == 2           \* k1 ranges over 1..MaxK1
MaxK2 == 2           \* k2 ranges over 1..MaxK2
MaxThreads == 4      \* threads ranges over -MaxNegThreads..MaxThreads
MaxNegThreads == 1   \* int(options.threads) accepts any integer
MaxLabeled == 2      \* labeled_set has 1..MaxLabeled distinct members
MaxKills == 1        \* worker processes killed from outside, per run

\* ---- program constants ----
Inf == 1000          \* float('inf')

VARIABLES
    obj_count,    \* data.shape[0]
    data,         \* data[obj]: the attribute of object obj
    labeled_set,  \* the labeled ids, in file order
    kdtree,       \* kdtree[obj]: all ids by ascending distance from obj
    k1, k2, threads,
    part,         \* obj_count / threads
    pc,           \* position of main()
    i,            \* index into xrange(0, obj_count, part) of the next spawn
    procs1,       \* the labeled_nearest processes, in dispatch order
    procs2,       \* the gbili processes, in dispatch order
    r,            \* index of the receiver main() reads next
    buff,         \* merged map object -> <<labeled id, distance>>
    dic_knn,      \* merged map object -> <<dists, indexs>>
    edgelist,     \* the edge records accumulated by main()
    output,       \* the records written to the output file
    written,      \* TRUE once fout.write ran
    outcome       \* how main() ended

vars == <<obj_count, data, labeled_set, kdtree, k1, k2, threads, part, pc, i,
          procs1, procs2, r, buff, dic_knn, edgelist, output, written, outcome>>

inputs == <<obj_count, data, labeled_set, kdtree, k1, k2, threads>>

\* ---- helpers ----
Min(a, b) == IF a < b THEN a ELSE b

Abs(a) == IF a < 0 THEN -a ELSE a

Range(s) == {s[j] : j \in DOMAIN s}

\* Python 2 integer division: the floor of a / b, for a >= 0 and b # 0
FloorDiv(a, b) == IF b > 0 THEN a \div b ELSE -((a + (-b) - 1) \div (-b))

\* xrange that stops after the last full step (mutation of XRange)
XRangeFullSteps(stop, step) ==
    IF step > 0 THEN [j \in 1..(stop \div step) |-> (j - 1) * step]
    ELSE <<>>

\* xrange(0, stop, step), step # 0
XRange(stop, step) ==
    IF step > 0 THEN [j \in 1..((stop + step - 1) \div step) |-> (j - 1) * step]
    ELSE <<>>

\* obj_set[lo:hi] with obj_set = range(0, n)
Slice(n, lo, hi) == [j \in 1..(Min(hi, n) - Min(lo, n)) |-> lo + j - 1]

\* spatial.distance.euclidean on one attribute
euclidean(a, b) == Abs(a - b)

\* dict.update
Update(d, aux) ==
    [x \in (DOMAIN d) \cup (DOMAIN aux) |-> IF x \in DOMAIN aux THEN aux[x] ELSE d[x]]

\* ---- spatial.KDTree ----
\* The order in which the tree reports the ids, nearest first.  Equal
\* distances are reported in ascending or in descending id order: the
\* order among ties is the library's choice.
KDTree(n, d, desc) ==
    [o \in 0..(n - 1) |->
        LET key(x) == euclidean(d[o], d[x]) * (n + 1) + (IF desc THEN n - x ELSE x)
        IN  [j \in 1..n |->
                CHOOSE x \in 0..(n - 1) :
                    Cardinality({y \in 0..(n - 1) : key(y) < key(x)}) = j - 1]]

\* kdtree.query(data[obj], k): <<dists, indexs>>; missing neighbors are
\* reported with infinite distance and index n
query(n, d, tree, obj, k) ==
    << [j \in 1..k |-> IF j <= n THEN euclidean(d[obj], d[tree[obj][j]]) ELSE Inf],
       [j \in 1..k |-> IF j <= n THEN tree[obj][j] ELSE n] >>

\* ---- labeled_nearest ----
\* the scan that passes over obj itself (mutation of NearestScan)
RECURSIVE NearestScanSkipSelf(_, _, _, _, _, _)
NearestScanSkipSelf(d, ls, obj, j, min_label, min_dist) ==
    IF j > Len(ls) THEN <<min_label, min_dist>>
    ELSE LET dist == euclidean(d[obj], d[ls[j]])
         IN  IF ls[j] # obj /\ dist < min_dist
             THEN NearestScanSkipSelf(d, ls, obj, j + 1, ls[j], dist)
             ELSE NearestScanSkipSelf(d, ls, obj, j + 1, min_label, min_dist)

\* the scan with "dist <= min_dist" (mutation of NearestScan)
RECURSIVE NearestScanLastWins(_, _, _, _, _, _)
NearestScanLastWins(d, ls, obj, j, min_label, min_dist) ==
    IF j > Len(ls) THEN <<min_label, min_dist>>
    ELSE LET dist == euclidean(d[obj], d[ls[j]])
         IN  IF dist <= min_dist
             THEN NearestScanLastWins(d, ls, obj, j + 1, ls[j], dist)
             ELSE NearestScanLastWins(d, ls, obj, j + 1, min_label, min_dist)

\* the scan with "dist > min_dist" (mutation of NearestScan)
RECURSIVE NearestScanInverted(_, _, _, _, _, _)
NearestScanInverted(d, ls, obj, j, min_label, min_dist) ==
    IF j > Len(ls) THEN <<min_label, min_dist>>
    ELSE LET dist == euclidean(d[obj], d[ls[j]])
         IN  IF dist > min_dist
             THEN NearestScanInverted(d, ls, obj, j + 1, ls[j], dist)
             ELSE NearestScanInverted(d, ls, obj, j + 1, min_label, min_dist)

\* the scan of labeled_set from position j on
RECURSIVE NearestScan(_, _, _, _, _, _)
NearestScan(d, ls, obj, j, min_label, min_dist) ==
    IF j > Len(ls) THEN <<min_label, min_dist>>
    ELSE LET dist == euclidean(d[obj], d[ls[j]])
         IN  IF dist < min_dist
             THEN NearestScan(d, ls, obj, j + 1, ls[j], dist)
             ELSE NearestScan(d, ls, obj, j + 1, min_label, min_dist)

\* a[1:]
DropFirst(a) == [j \in 1..(Len(a) - 1) |-> a[j + 1]]

\* the message of one labeled_nearest worker: <<buff, dic_knn>>
labeled_nearest(obj_subset, n, d, ls, tree, kk1) ==
    << [obj \in Range(obj_subset) |-> NearestScan(d, ls, obj, 1, -1, Inf)],
       [obj \in Range(obj_subset) |->
            LET q == query(n, d, tree, obj, kk1 + 1)
            IN  <<DropFirst(q[1]), DropFirst(q[2])>>] >>

\* ---- gbili ----
\* the positions without the mutual test (mutation of MutualPos)
MutualPosAll(obj, knn) ==
    LET all == [p \in 1..Len(knn[obj][2]) |-> p]
        keep(p) == knn[obj][2][p] # obj
    IN  SelectSeq(all, keep)

\* positions i of obj's KNN that pass "obj == nn: continue" and the mutual test
MutualPos(obj, knn) ==
    LET all == [p \in 1..Len(knn[obj][2]) |-> p]
        keep(p) == /\ knn[obj][2][p] # obj
                   /\ obj \in Range(knn[knn[obj][2][p]][2])
    IN  SelectSeq(all, keep)

\* dic_knn[obj] or dic_knn[nn] raises KeyError
KeyError(obj, knn) ==
    \/ obj \notin DOMAIN knn
    \/ \E p \in 1..Len(knn[obj][2]) :
          knn[obj][2][p] # obj /\ knn[obj][2][p] \notin DOMAIN knn

\* np.argsort(a): indices of a by ascending value; equal values keep their
\* order (insertion sort is used below 17 elements)
argsort(a) ==
    [j \in 1..Len(a) |->
        CHOOSE x \in 1..Len(a) :
            Cardinality({y \in 1..Len(a) : a[y] < a[x] \/ (a[y] = a[x] /\ y < x)}) = j - 1]

\* the edges of one object without the [:k2] cut (mutation of GbiliObj)
GbiliObjNoCut(obj, kk2, b, knn) ==
    LET pos == MutualPos(obj, knn)
    IN  [c \in 1..Len(pos) |->
            <<obj, knn[obj][2][pos[c]], <<1, 1 + knn[obj][1][pos[c]]>> >>]

\* the edges of one object, d2 taken from buff[obj] (mutation of GbiliObj)
GbiliObjOwnD2(obj, kk2, b, knn) ==
    LET pos == MutualPos(obj, knn)
        obj_dists == [c \in 1..Len(pos) |-> knn[obj][1][pos[c]] + b[obj][2]]
        obj_ew == [c \in 1..Len(pos) |->
                     <<obj, knn[obj][2][pos[c]], <<1, 1 + knn[obj][1][pos[c]]>> >>]
        order == argsort(obj_dists)
    IN  [c \in 1..Min(kk2, Len(pos)) |-> obj_ew[order[c]]]

\* the edges one object contributes
GbiliObj(obj, kk2, b, knn) ==
    LET pos == MutualPos(obj, knn)
        obj_dists == [c \in 1..Len(pos) |-> knn[obj][1][pos[c]] + b[knn[obj][2][pos[c]]][2]]
        obj_ew == [c \in 1..Len(pos) |->
                     <<obj, knn[obj][2][pos[c]], <<1, 1 + knn[obj][1][pos[c]]>> >>]
        order == argsort(obj_dists)
    IN  [c \in 1..Min(kk2, Len(pos)) |-> obj_ew[order[c]]]

\* the message of one gbili worker: ew
RECURSIVE gbili(_, _, _, _)
gbili(obj_subset, kk2, b, knn) ==
    IF obj_subset = <<>> THEN <<>>
    ELSE GbiliObj(Head(obj_subset), kk2, b, knn) \o gbili(Tail(obj_subset), kk2, b, knn)

\* ---- the processes ----
\* A process: the slice it was given, the arguments copied into it when it
\* was forked, its status, the content of its pipe, and whether some process
\* still holds the sending end of the pipe open.  A process is "running"
\* until it calls sender.send.  The call returns at once when the message
\* fits into the buffer of the pipe ("exited"); otherwise the process stays
\* inside the call ("sending") until main() reads its receiver.
Proc(obj_subset, args) ==
    [obj_subset |-> obj_subset, args |-> args, status |-> "running",
     pipe |-> <<>>, wopen |-> TRUE]

Abnormal == {"crashed", "killed"}

Alive == {"running", "sending"}

\* how sender.send leaves the process: the message fits or it does not
AfterSend == {"exited", "sending"}

Killed == Cardinality({w \in DOMAIN procs1 : procs1[w].status = "killed"})
          + Cardinality({w \in DOMAIN procs2 : procs2[w].status = "killed"})

\* labeled ids in file order
LabeledSets(n) ==
    {ls \in UNION {[1..m -> 0..(n - 1)] : m \in 1..MaxLabeled} :
        \A a, b \in DOMAIN ls : a # b => ls[a] # ls[b]}

\* main() before "part = obj_count / threads"
Start ==
    /\ part = 0
    /\ pc = "part"
    /\ i = 1
    /\ procs1 = <<>>
    /\ procs2 = <<>>
    /\ r = 1
    /\ buff = <<>>
    /\ dic_knn = <<>>
    /\ edgelist = <<>>
    /\ output = <<>>
    /\ written = FALSE
    /\ outcome = "none"

\* any data table, label file and options within the bounds
Init ==
    /\ obj_count \in 1..MaxObj
    /\ data \in [0..(obj_count - 1) -> 0..MaxCoord]
    /\ labeled_set \in LabeledSets(obj_count)
    /\ kdtree \in {KDTree(obj_count, data, desc) : desc \in BOOLEAN}
    /\ k1 \in 1..MaxK1
    /\ k2 \in 1..MaxK2
    /\ threads \in (-MaxNegThreads)..MaxThreads
    /\ Start

\* objects on a line at positions 0, 1, 2, 3, 10, 11, 12, ...; the labeled
\* ids are 0, or 0 and 4 (the points at positions 0 and 10); k1 = 2, k2 = 1
LineData(n) == [o \in 0..(n - 1) |-> IF o < 4 THEN o ELSE o + 6]

InitLine ==
    /\ obj_count \in 1..MaxLineObj
    /\ data = LineData(obj_count)
    /\ labeled_set \in {ls \in LabeledSets(obj_count) : Range(ls) \subseteq {0, 4} /\ ls[1] = 0}
    /\ kdtree \in {KDTree(obj_count, data, desc) : desc \in BOOLEAN}
    /\ k1 = 2
    /\ k2 = 1
    /\ threads \in (-MaxNegThreads)..MaxThreads
    /\ Start

\* ---- main() ----
\* part = obj_count / threads
ComputePart ==
    /\ pc = "part"
    /\ threads # 0
    /\ part' = FloorDiv(obj_count, threads)
    /\ pc' = "spawn1"
    /\ i' = 1
    /\ UNCHANGED <<inputs, procs1, procs2, r, buff, dic_knn, edgelist, output, written, outcome>>

DivisionByZero ==
    /\ pc = "part"
    /\ threads = 0
    /\ pc' = "failed"
    /\ outcome' = "ZeroDivisionError"
    /\ UNCHANGED <<inputs, part, i, procs1, procs2, r, buff, dic_knn, edgelist, output, written>>

\* xrange(0, obj_count, part) with part = 0
XRangeZeroStep ==
    /\ pc = "spawn1"
    /\ part = 0
    /\ pc' = "failed"
    /\ outcome' = "ValueError"
    /\ UNCHANGED <<inputs, part, i, procs1, procs2, r, buff, dic_knn, edgelist, output, written>>

\* one pass of the first dispatch loop
Spawn1 ==
    /\ pc = "spawn1"
    /\ part # 0
    /\ i <= Len(XRange(obj_count, part))
    /\ LET lo == XRange(obj_count, part)[i]
       IN  procs1' = Append(procs1, Proc(Slice(obj_count, lo, lo + part), <<>>))
    /\ i' = i + 1
    /\ UNCHANGED <<inputs, part, pc, procs2, r, buff, dic_knn, edgelist, output, written, outcome>>

\* buff = dict(); dic_knn = dict()
EndSpawn1 ==
    /\ pc = "spawn1"
    /\ part # 0
    /\ i > Len(XRange(obj_count, part))
    /\ pc' = "recv1"
    /\ r' = 1
    /\ buff' = <<>>
    /\ dic_knn' = <<>>
    /\ UNCHANGED <<inputs, part, i, procs1, procs2, edgelist, output, written, outcome>>

\* main() receives from a process only after the process has exited
\* (mutation of Recv1)
Recv1AfterJoin ==
    /\ pc = "recv1"
    /\ r <= Len(procs1)
    /\ procs1[r].pipe # <<>>
    /\ procs1[r].status = "exited"
    /\ buff' = Update(buff, Head(procs1[r].pipe)[1])
    /\ dic_knn' = Update(dic_knn, Head(procs1[r].pipe)[2])
    /\ procs1' = [procs1 EXCEPT ![r].pipe = Tail(@), ![r].status = "exited"]
    /\ r' = r + 1
    /\ UNCHANGED <<inputs, part, pc, i, procs2, edgelist, output, written, outcome>>

\* one pass of the first receive loop
Recv1 ==
    /\ pc = "recv1"
    /\ r <= Len(procs1)
    /\ procs1[r].pipe # <<>>
    /\ buff' = Update(buff, Head(procs1[r].pipe)[1])
    /\ dic_knn' = Update(dic_knn, Head(procs1[r].pipe)[2])
    /\ procs1' = [procs1 EXCEPT ![r].pipe = Tail(@), ![r].status = "exited"]
    /\ r' = r + 1
    /\ UNCHANGED <<inputs, part, pc, i, procs2, edgelist, output, written, outcome>>

\* the receive loop left one receiver early (mutation of EndRecv1)
EndRecv1Early ==
    /\ pc = "recv1"
    /\ r >= Len(procs1)
    /\ pc' = "spawn2"
    /\ i' = 1
    /\ UNCHANGED <<inputs, part, procs1, procs2, r, buff, dic_knn, edgelist, output, written, outcome>>

\* receivers = []
EndRecv1 ==
    /\ pc = "recv1"
    /\ r > Len(procs1)
    /\ pc' = "spawn2"
    /\ i' = 1
    /\ UNCHANGED <<inputs, part, procs1, procs2, r, buff, dic_knn, edgelist, output, written, outcome>>

\* one pass of the second dispatch loop
Spawn2 ==
    /\ pc = "spawn2"
    /\ part # 0
    /\ i <= Len(XRange(obj_count, part))
    /\ LET lo == XRange(obj_count, part)[i]
       IN  procs2' = Append(procs2, Proc(Slice(obj_count, lo, lo + part), <<buff, dic_knn>>))
    /\ i' = i + 1
    /\ UNCHANGED <<inputs, part, pc, procs1, r, buff, dic_knn, edgelist, output, written, outcome>>

\* edgelist = ''
EndSpawn2 ==
    /\ pc = "spawn2"
    /\ part # 0
    /\ i > Len(XRange(obj_count, part))
    /\ pc' = "recv2"
    /\ r' = 1
    /\ edgelist' = <<>>
    /\ UNCHANGED <<inputs, part, i, procs1, procs2, buff, dic_knn, output, written, outcome>>

\* the received list replaces edgelist (mutation of Recv2)
Recv2Overwrite ==
    /\ pc = "recv2"
    /\ r <= Len(procs2)
    /\ procs2[r].pipe # <<>>
    /\ edgelist' = Head(procs2[r].pipe)
    /\ procs2' = [procs2 EXCEPT ![r].pipe = Tail(@), ![r].status = "exited"]
    /\ r' = r + 1
    /\ UNCHANGED <<inputs, part, pc, i, procs1, buff, dic_knn, output, written, outcome>>

\* the received list is put in front of edgelist (mutation of Recv2)
Recv2Prepend ==
    /\ pc = "recv2"
    /\ r <= Len(procs2)
    /\ procs2[r].pipe # <<>>
    /\ edgelist' = Head(procs2[r].pipe) \o edgelist
    /\ procs2' = [procs2 EXCEPT ![r].pipe = Tail(@), ![r].status = "exited"]
    /\ r' = r + 1
    /\ UNCHANGED <<inputs, part, pc, i, procs1, buff, dic_knn, output, written, outcome>>

\* one pass of the second receive loop
Recv2 ==
    /\ pc = "recv2"
    /\ r <= Len(procs2)
    /\ procs2[r].pipe # <<>>
    /\ edgelist' = edgelist \o Head(procs2[r].pipe)
    /\ procs2' = [procs2 EXCEPT ![r].pipe = Tail(@), ![r].status = "exited"]
    /\ r' = r + 1
    /\ UNCHANGED <<inputs, part, pc, i, procs1, buff, dic_knn, output, written, outcome>>

\* receiver.recv() on a pipe whose sending end is closed everywhere
RecvEOF ==
    /\ \/ pc = "recv1" /\ r <= Len(procs1) /\ procs1[r].pipe = <<>>
          /\ procs1[r].status \in Abnormal /\ ~procs1[r].wopen
       \/ pc = "recv2" /\ r <= Len(procs2) /\ procs2[r].pipe = <<>>
          /\ procs2[r].status \in Abnormal /\ ~procs2[r].wopen
    /\ pc' = "failed"
    /\ outcome' = "EOFError"
    /\ UNCHANGED <<inputs, part, i, procs1, procs2, r, buff, dic_knn, edgelist, output, written>>

\* with open(options.output, 'w') as fout: fout.write(edgelist)
WriteOutput ==
    /\ pc = "recv2"
    /\ r > Len(procs2)
    /\ output' = edgelist
    /\ written' = TRUE
    /\ pc' = "done"
    /\ outcome' = "success"
    /\ UNCHANGED <<inputs, part, i, procs1, procs2, r, buff, dic_knn, edgelist>>

\* ---- the worker processes ----
\* a labeled_nearest process runs to its sender.send
LabeledNearestRun(w) ==
    /\ procs1[w].status = "running"
    /\ \E st \in AfterSend :
          procs1' = [procs1 EXCEPT
              ![w].pipe = <<labeled_nearest(procs1[w].obj_subset, obj_count, data,
                                            labeled_set, kdtree, k1)>>,
              ![w].status = st]
    /\ UNCHANGED <<inputs, part, pc, i, procs2, r, buff, dic_knn, edgelist, output, written, outcome>>

\* a gbili process runs to its sender.send
GbiliRun(w) ==
    /\ procs2[w].status = "running"
    /\ \A obj \in Range(procs2[w].obj_subset) : ~KeyError(obj, procs2[w].args[2])
    /\ \E st \in AfterSend :
          procs2' = [procs2 EXCEPT
              ![w].pipe = <<gbili(procs2[w].obj_subset, k2, procs2[w].args[1],
                                  procs2[w].args[2])>>,
              ![w].status = st]
    /\ UNCHANGED <<inputs, part, pc, i, procs1, r, buff, dic_knn, edgelist, output, written, outcome>>

\* a gbili process dies of the KeyError of dic_knn[nn] and sends nothing
GbiliKeyError(w) ==
    /\ procs2[w].status = "running"
    /\ \E obj \in Range(procs2[w].obj_subset) : KeyError(obj, procs2[w].args[2])
    /\ \E open \in BOOLEAN :
          procs2' = [procs2 EXCEPT ![w].status = "crashed", ![w].wopen = open]
    /\ UNCHANGED <<inputs, part, pc, i, procs1, r, buff, dic_knn, edgelist, output, written, outcome>>

\* a process is terminated from outside before its message is through
Kill1(w) ==
    /\ procs1[w].status \in Alive
    /\ Killed < MaxKills
    /\ \E open \in BOOLEAN :
          procs1' = [procs1 EXCEPT ![w].status = "killed", ![w].pipe = <<>>,
                                   ![w].wopen = open]
    /\ UNCHANGED <<inputs, part, pc, i, procs2, r, buff, dic_knn, edgelist, output, written, outcome>>

Kill2(w) ==
    /\ procs2[w].status \in Alive
    /\ Killed < MaxKills
    /\ \E open \in BOOLEAN :
          procs2' = [procs2 EXCEPT ![w].status = "killed", ![w].pipe = <<>>,
                                   ![w].wopen = open]
    /\ UNCHANGED <<inputs, part, pc, i, procs1, r, buff, dic_knn, edgelist, output, written, outcome>>

Next ==
    \/ ComputePart
    \/ DivisionByZero
    \/ XRangeZeroStep
    \/ Spawn1
    \/ EndSpawn1
    \/ Recv1
    \/ EndRecv1
    \/ Spawn2
    \/ EndSpawn2
    \/ Recv2
    \/ RecvEOF
    \/ WriteOutput
    \/ \E w \in DOMAIN procs1 : LabeledNearestRun(w)
    \/ \E w \in DOMAIN procs1 : Kill1(w)
    \/ \E w \in DOMAIN procs2 : GbiliRun(w)
    \/ \E w \in DOMAIN procs2 : GbiliKeyError(w)
    \/ \E w \in DOMAIN procs2 : Kill2(w)

Spec == Init /\ [][Next]_vars

SpecLine == InitLine /\ [][Next]_vars

\* ---- vocabulary of the properties ----
Objs == 0..(obj_count - 1)

ValidThreads == 1 <= threads /\ threads <= obj_count

Contiguous(s) == \A j \in 1..(Len(s) - 1) : s[j + 1] = s[j] + 1

\* the slices of ps are non-empty runs of ids, the first starts at 0 and
\* each next one starts right after the previous one
ChunksInOrder(ps) ==
    /\ \A w \in DOMAIN ps : ps[w].obj_subset # <<>> /\ Contiguous(ps[w].obj_subset)
    /\ ps # <<>> => ps[1].obj_subset[1] = 0
    /\ \A w \in 1..(Len(ps) - 1) :
          ps[w + 1].obj_subset[1] = ps[w].obj_subset[Len(ps[w].obj_subset)] + 1

\* every object id is in the slice of exactly one process of ps
ExactCover(ps) ==
    /\ \A w \in DOMAIN ps : Range(ps[w].obj_subset) \subseteq Objs
    /\ \A o \in Objs :
          Cardinality({w \in DOMAIN ps : o \in Range(ps[w].obj_subset)}) = 1

Phase1Dispatched == pc \notin {"part", "spawn1"}

Phase2Dispatched == pc \in {"recv2", "done"} \/ (pc = "failed" /\ procs2 # <<>>)

Phase1Merged == pc \in {"spawn2", "recv2", "done"} \/ (pc = "failed" /\ procs2 # <<>>)

\* every edge a gbili process has sent, main() has collected or written
Emitted ==
    Range(edgelist) \cup Range(output)
    \cup UNION {Range(procs2[w].pipe[1]) : w \in {v \in DOMAIN procs2 : procs2[v].pipe # <<>>}}

InKnn(a, b) == a \in Range(dic_knn[b][2])

\* the mutual candidates of o
Mutual(o) == {n \in Objs \ {o} : InKnn(n, o) /\ InKnn(o, n)}

CountFrom(seq, o) == Cardinality({j \in DOMAIN seq : seq[j][1] = o})

\* C1: with 1 <= threads <= obj_count the slices handed to the processes of
\* a phase are contiguous, pairwise disjoint and cover [0, obj_count)
\* exactly once, and after the first merge buff and dic_knn hold one entry
\* for every object.
C1_ChunksPartition ==
    ValidThreads =>
        /\ ChunksInOrder(procs1)
        /\ ChunksInOrder(procs2)
        /\ Phase1Dispatched => ExactCover(procs1)
        /\ Phase2Dispatched => ExactCover(procs2)
        /\ Phase1Merged => DOMAIN buff = Objs /\ DOMAIN dic_knn = Objs

\* a finished run whose last slice is shorter than the others
C1_Witness ==
    /\ ValidThreads
    /\ pc = "done"
    /\ obj_count % threads # 0
    /\ Len(procs1) > 1
    /\ Len(procs1[Len(procs1)].obj_subset) < Len(procs1[1].obj_subset)

\* C2: every emitted edge (o, n, w) joins a mutual pair: o is in the KNN of
\* n and n is in the KNN of o.
C2_EdgesMutual ==
    \A e \in Emitted : InKnn(e[1], e[2]) /\ InKnn(e[2], e[1])

\* output was written with an edge while some KNN pair is not mutual
C2_Witness ==
    /\ written
    /\ output # <<>>
    /\ \E o, n \in Objs : o # n /\ InKnn(n, o) /\ ~InKnn(o, n)

\* C3: the number of edges emitted with source o is min(k2, m), m being the
\* number of mutual candidates of o: in the list of every gbili process and
\* in the written output.
C3_EdgesPerObject ==
    /\ \A w \in DOMAIN procs2 :
          procs2[w].pipe # <<>> =>
              \A o \in Range(procs2[w].obj_subset) :
                  CountFrom(procs2[w].pipe[1], o) = Min(k2, Cardinality(Mutual(o)))
    /\ written /\ ValidThreads =>
          \A o \in Objs : CountFrom(output, o) = Min(k2, Cardinality(Mutual(o)))
    /\ \A o \in Objs : CountFrom(output, o) <= k2 /\ CountFrom(edgelist, o) <= k2

\* output was written and some object has fewer mutual candidates than k2
C3_Witness ==
    /\ written
    /\ ValidThreads
    /\ \E o \in Objs : Mutual(o) # {} /\ Cardinality(Mutual(o)) < k2

\* the edge list of the run with one worker: one labeled_nearest process
\* and one gbili process, each given the whole range
SingleWorkerEdges ==
    LET whole == [j \in 1..obj_count |-> j - 1]
        m == labeled_nearest(whole, obj_count, data, labeled_set, kdtree, k1)
    IN  gbili(whole, k2, m[1], m[2])

\* C4: for every valid worker count the written edge set (pairs and
\* weights) is the edge set of the run with one worker.
C4_PartitionInvariance ==
    written /\ ValidThreads => Range(output) = Range(SingleWorkerEdges)

\* output with edges from more than one gbili process
C4_Witness ==
    /\ written
    /\ ValidThreads
    /\ Len(procs2) > 1
    /\ Cardinality({o \in Objs : CountFrom(output, o) > 0}) > 1

\* ceil(a / b) for b > 0
CeilDiv(a, b) == (a + b - 1) \div b

\* C5: [0, obj_count) is split into exactly threads slices of size
\* ceil(obj_count / threads), only the last possibly smaller, one process
\* per slice in each phase.
C5_ExactlyThreadsChunks ==
    ValidThreads /\ Phase1Dispatched =>
        /\ Len(procs1) = threads
        /\ \A w \in DOMAIN procs1 :
              IF w < Len(procs1)
              THEN Len(procs1[w].obj_subset) = CeilDiv(obj_count, threads)
              ELSE Len(procs1[w].obj_subset) <= CeilDiv(obj_count, threads)
        /\ Phase2Dispatched => Len(procs2) = threads

\* C6: once a gbili process exists, every labeled_nearest result has been
\* received and merged, buff and dic_knn hold every object, and every gbili
\* process was given the same buff and dic_knn.
C6_PhaseBarrier ==
    procs2 # <<>> =>
        /\ \A w \in DOMAIN procs1 : procs1[w].status = "exited" /\ procs1[w].pipe = <<>>
        /\ r > Len(procs1) \/ pc # "recv1"
        /\ DOMAIN buff = Objs
        /\ DOMAIN dic_knn = Objs
        /\ \A w \in DOMAIN procs2 : procs2[w].args = <<buff, dic_knn>>

\* a gbili process runs after several labeled_nearest results were merged
C6_Witness ==
    /\ Len(procs1) > 1
    /\ \E w \in DOMAIN procs2 : procs2[w].status = "running"

\* C7: with threads > obj_count or threads <= 0 the run fails before any
\* work is scheduled: no process of either phase, no output.
C7_InvalidThreadsFail ==
    (threads > obj_count \/ threads <= 0) =>
        /\ procs1 = <<>>
        /\ procs2 = <<>>
        /\ ~written
        /\ pc # "done"

\* C8: with k1 + 1 > obj_count the run fails before any process is
\* scheduled: no process of either phase, no output.
C8_InsufficientDataFail ==
    k1 + 1 > obj_count =>
        /\ procs1 = <<>>
        /\ procs2 = <<>>
        /\ ~written

AnyAbnormal ==
    \/ \E w \in DOMAIN procs1 : procs1[w].status \in Abnormal
    \/ \E w \in DOMAIN procs2 : procs2[w].status \in Abnormal

\* C9: when a process of either phase ends abnormally, main() eventually
\* stops waiting and the run ends as failed.
C9_WorkerFailureEnds == AnyAbnormal ~> (pc = "failed")

\* C10: output is written only in a run without configuration error,
\* insufficient data or worker failure, after every gbili result was
\* received and merged, and then it holds the edges of every slice.
C10_NoOutputOnFailure ==
    written =>
        /\ ValidThreads
        /\ k1 + 1 <= obj_count
        /\ ~AnyAbnormal
        /\ r > Len(procs2)
        /\ \A w \in DOMAIN procs2 : procs2[w].status = "exited" /\ procs2[w].pipe = <<>>
        /\ ExactCover(procs2)
        /\ output = SingleWorkerEdges

\* the neighbors written with source o
EmittedFrom(o) == {output[j][2] : j \in {c \in DOMAIN output : output[c][1] = o}}

\* the informativeness score of candidate n of o
Score(o, n) == euclidean(data[o], data[n]) + buff[n][2]

\* C11: among mutual candidates of equal score the one with the smaller
\* neighbor id is kept: a dropped candidate that ties with a written one has
\* the larger id.
C11_TiesByAscendingId ==
    written /\ ValidThreads =>
        \A o \in Objs : \A n \in EmittedFrom(o) : \A m \in Mutual(o) \ EmittedFrom(o) :
            Score(o, m) = Score(o, n) => n < m

\* the first merge is over and at least one labeled_nearest process ran
MapsMerged == Phase1Merged /\ threads >= 1

\* C12: after the first merge the KNN of o does not contain o.
C12_KnnExcludesSelf ==
    MapsMerged => \A o \in Objs : ~InKnn(o, o)

\* the position of l in labeled_set
PosIn(l) == CHOOSE j \in DOMAIN labeled_set : labeled_set[j] = l

\* C13 as stated: with two or more labeled objects the nearest labeled of a
\* labeled object is another labeled object; with one labeled object every
\* object maps to it.
C13_NearestLabeledNotSelf ==
    MapsMerged =>
        /\ Len(labeled_set) >= 2 =>
              \A o \in Range(labeled_set) :
                  buff[o][1] # o /\ buff[o][1] \in Range(labeled_set)
        /\ Len(labeled_set) = 1 => \A o \in Objs : buff[o][1] = labeled_set[1]

\* C13 amended: the nearest labeled of a labeled object o is a labeled
\* object at distance 0: o itself, or a labeled object with the same
\* attributes that comes before o in labeled_set; with one labeled object
\* every object maps to it.
C13_NearestLabeledAtZero ==
    MapsMerged =>
        /\ \A o \in Range(labeled_set) :
              /\ buff[o][2] = 0
              /\ buff[o][1] \in Range(labeled_set)
              /\ data[buff[o][1]] = data[o]
              /\ buff[o][1] # o => PosIn(buff[o][1]) < PosIn(o)
        /\ Len(labeled_set) = 1 => \A o \in Objs : buff[o][1] = labeled_set[1]

\* two labeled objects, one of them mapped to itself
C13_Witness ==
    /\ MapsMerged
    /\ Len(labeled_set) >= 2
    /\ \E o \in Range(labeled_set) : buff[o][1] = o

\* the scenario of the six points on a line: positions 0, 1, 2, 3, 10, 11,
\* the points at positions 0 and 10 labeled, k1 = 2, k2 = 1, a valid threads
LineScenario ==
    /\ obj_count = 6
    /\ data = LineData(6)
    /\ \A o \in Objs : data[o] = IF o < 4 THEN o ELSE o + 6
    /\ labeled_set = <<0, 4>>
    /\ k1 = 2
    /\ k2 = 1
    /\ ValidThreads

\* both points left of the gap or both right of it
SameCluster(a, b) == (data[a] <= 3) = (data[b] <= 3)

\* C14: in the line scenario, for every valid threads, object 1 maps to
\* labeled object 0 at distance 1, object 2 to labeled object 0 at distance
\* 2, and no edge sent, collected or written joins a point of positions
\* 0..3 with one of positions 10, 11.
C14_LineScenarioEdges ==
    LineScenario =>
        /\ MapsMerged => buff[1] = <<0, 1>> /\ buff[2] = <<0, 2>>
        /\ \A e \in Emitted : SameCluster(e[1], e[2])

\* the scenario written by several processes, with an edge in each cluster
C14_Witness ==
    /\ LineScenario
    /\ written
    /\ threads >= 2
    /\ 0 \in EmittedFrom(1)
    /\ 5 \in EmittedFrom(4)

\* C15: the written edges of o are its mutual candidates of lowest score
\* d(o, n) + buff[n][2]: no dropped mutual candidate has a strictly lower
\* score than a written one.
C15_LowestScoresKept ==
    written /\ ValidThreads =>
        \A o \in Objs :
            /\ EmittedFrom(o) \subseteq Mutual(o)
            /\ \A n \in EmittedFrom(o) : \A m \in Mutual(o) \ EmittedFrom(o) :
                  Score(o, m) >= Score(o, n)

\* a candidate was dropped for its higher score although it is not farther
\* from o than the written one: the distance of the neighbor to its own
\* nearest labeled object decided
C15_Witness ==
    /\ written
    /\ ValidThreads
    /\ \E o \in Objs : \E n \in EmittedFrom(o) : \E m \in Mutual(o) \ EmittedFrom(o) :
          /\ Score(o, m) > Score(o, n)
          /\ euclidean(data[o], data[m]) <= euclidean(data[o], data[n])
          /\ buff[o][2] # buff[n][2]

\* the least distance from o to a labeled object
MinLabeledDist(o) ==
    CHOOSE dd \in {euclidean(data[o], data[labeled_set[j]]) : j \in DOMAIN labeled_set} :
        \A j \in DOMAIN labeled_set : dd <= euclidean(data[o], data[labeled_set[j]])

\* the first position of labeled_set at that distance
FirstNearest(o) ==
    CHOOSE j \in DOMAIN labeled_set :
        /\ euclidean(data[o], data[labeled_set[j]]) = MinLabeledDist(o)
        /\ \A c \in 1..(j - 1) : euclidean(data[o], data[labeled_set[c]]) # MinLabeledDist(o)

\* C16: buff[o] is (l, d), d the least Euclidean distance from o to a
\* labeled object and l the first member of labeled_set at that distance.
C16_NearestLabeledFirstMin ==
    MapsMerged =>
        \A o \in Objs : buff[o] = <<labeled_set[FirstNearest(o)], MinLabeledDist(o)>>

\* two labeled objects at the same distance from some object, the one with
\* the larger id first in labeled_set
C16_Witness ==
    /\ MapsMerged
    /\ Len(labeled_set) >= 2
    /\ labeled_set[1] > labeled_set[2]
    /\ \E o \in Objs :
          euclidean(data[o], data[labeled_set[1]]) = euclidean(data[o], data[labeled_set[2]])

\* process w of ps is inside sender.send, which returns only once main()
\* receives from w, and main() receives from the processes before w first:
\* one of them has not sent yet
WaitsOnSibling(ps, w) ==
    /\ ps[w].status = "sending"
    /\ \E v \in 1..(w - 1) : ps[v].status = "running"

\* C17: while main() receives in dispatch order, no process of either phase
\* is held in its sender.send until a process dispatched before it has
\* finished.
C17_NoWaitOnSibling ==
    /\ pc = "recv1" => \A w \in DOMAIN procs1 : ~WaitsOnSibling(procs1, w)
    /\ pc = "recv2" => \A w \in DOMAIN procs2 : ~WaitsOnSibling(procs2, w)

\* the lists of the gbili processes w..Len(procs2), one after the other
RECURSIVE ChunkLists(_)
ChunkLists(w) ==
    IF w > Len(procs2) THEN <<>>
    ELSE gbili(procs2[w].obj_subset, k2, buff, dic_knn) \o ChunkLists(w + 1)

NonDecreasingSources(seq) == \A j \in 1..(Len(seq) - 1) : seq[j][1] <= seq[j + 1][1]

\* C18: whatever the order in which the processes finish, the collected
\* and the written records are the lists of the slices in dispatch order,
\* so the sources never decrease.
C18_OutputInDispatchOrder ==
    /\ NonDecreasingSources(edgelist)
    /\ written =>
          /\ output = ChunkLists(1)
          /\ NonDecreasingSources(output)

\* main() has collected the first list while the third process has sent
\* its list before the second one did
C18_Witness ==
    /\ pc = "recv2"
    /\ r = 2
    /\ edgelist # <<>>
    /\ Len(procs2) >= 3
    /\ procs2[2].status = "running"
    /\ procs2[3].pipe # <<>>
    /\ procs2[3].pipe[1] # <<>>

ValidConfig == ValidThreads /\ k1 + 1 <= obj_count

\* every process of both phases has sent its one message and exited, main()
\* has received them all, in order, and written the output
Finished ==
    /\ pc = "done"
    /\ written
    /\ Len(procs1) >= 1
    /\ Len(procs2) = Len(procs1)
    /\ r = Len(procs2) + 1
    /\ \A w \in DOMAIN procs1 : procs1[w].status = "exited" /\ procs1[w].pipe = <<>>
    /\ \A w \in DOMAIN procs2 : procs2[w].status = "exited" /\ procs2[w].pipe = <<>>
    /\ DOMAIN buff = Objs
    /\ output = ChunkLists(1)

\* C19: with 1 <= threads <= obj_count and k1 + 1 <= obj_count, a pipe never
\* holds more than one message, and from every state of a run either a
\* process ends abnormally or the run finishes: every process has sent and
\* exited, main() has received every message and written the output. No
\* state without abnormal end is a deadlock of receives and sends.
C19_ValidRunFinishes ==
    /\ [](\A w \in DOMAIN procs1 : Len(procs1[w].pipe) <= 1)
    /\ [](\A w \in DOMAIN procs2 : Len(procs2[w].pipe) <= 1)
    /\ ValidConfig ~> (Finished \/ AnyAbnormal)

\* main() is about to receive from the last gbili process, which is held
\* in its sender.send, after an earlier one was received; nothing failed
C19_Witness ==
    /\ ValidConfig
    /\ ~AnyAbnormal
    /\ pc = "recv2"
    /\ Len(procs2) >= 2
    /\ r = Len(procs2)
    /\ procs2[r].status = "sending"
    /\ procs2[r - 1].status = "exited"

\* a step of main() or of a process, not a termination from outside
ProgramStep == Next /\ Killed' = Killed

\* every step of the program that can be taken is eventually taken; nothing
\* obliges the environment to terminate a process
FairSpecLine == SpecLine /\ WF_vars(ProgramStep)

====
